---- MODULE Spec2Model ----
(***************************************************************************)
(* Hackflight core loop (src/src/hackflight.hpp): the arming / safety      *)
(* state machine of Hackflight::checkReceiver and the per-tick stage order *)
(* of Hackflight::update, updateFull and updateLite.                       *)
(*                                                                         *)
(* Angles are fixed-point micro-radians.  The calls a tick makes on its    *)
(* collaborators (actuator, board, sensors, tasks) are recorded, in order, *)
(* in the sequence calls, which is emptied when update() is entered.       *)
(***************************************************************************)
EXTENDS Integers, Sequences, FiniteSets, TLC

\* ------------------------------------------------------------------ bounds
\* number of addSensor() calls the host makes
MaxAddSensor == 1

\* number of addSensor() calls of a host that fills the _sensors array
MaxRegistrations == 254

\* ------------------------------------------------------- program constants
MAX_ARMING_ANGLE_DEGREES == 25

\* capacity of the _sensors array, and the modulus of the uint8_t counter
SensorCapacity == 256

AXIS_ROLL == 0
AXIS_PITCH == 1
AXIS_YAW == 2

\* Filter::deg2rad, in fixed point: degrees to micro-radians (pi = 3141593)
deg2rad(deg) == (deg * 3141593) \div 180

fabs(x) == IF x < 0 THEN -x ELSE x

B2S(b) == IF b THEN "true" ELSE "false"

\* ----------------------------------------------------------- input domains
\* yaw angles a quaternion update can produce
YawSet == { 0, 1000000 }

\* the arming envelope in micro-radians
ArmingLimit == deg2rad(MAX_ARMING_ANGLE_DEGREES)

\* <<roll, pitch, yaw>> triples a quaternion update can produce: level, both
\* axes just inside the envelope, one axis exactly on it (either sign), one
\* axis beyond it (either sign)
Rot(roll, pitch, yaw) ==
    (AXIS_ROLL :> roll) @@ (AXIS_PITCH :> pitch) @@ (AXIS_YAW :> yaw)

RotationSet == { Rot(0, 0, 0),
                 Rot(ArmingLimit - 1, -(ArmingLimit - 1), 1000000),
                 Rot(ArmingLimit, 0, 0),
                 Rot(0, -ArmingLimit, 1000000),
                 Rot(-(ArmingLimit + 1), 0, 0),
                 Rot(0, ArmingLimit + 1, 0) }

\* sensors the host can register with addSensor, in registration order
ExtraSensors == << "barometer", "rangefinder", "opticalflow", "accelerometer" >>

VARIABLES
    armed,          \* _state.armed
    failsafe,       \* _state.failsafe
    safeToArm,      \* _safeToArm
    yawInitial,     \* _yawInitial
    rotation,       \* _state.rotation[3]
    sensors,        \* _sensors, the entries written so far
    sensor_count,   \* _sensor_count
    updater,        \* _updater: "full" or "lite"
    lostSignal,     \* receiver: lostSignal() of the current cycle
    aux1State,      \* receiver: getAux1State(), refreshed by getDemands
    throttleDown,   \* receiver: throttleIsDown(), refreshed by getDemands
    gotDemands,     \* return value of getDemands in the current cycle
    todo,           \* stages of the current update() call still to run
    calls,          \* calls made on collaborators in the current tick
    pre,            \* arming state when checkReceiver was entered
    armTransition,  \* the arm branch of checkReceiver ran in this cycle
    initArmed,      \* the armed argument of init()
    sawAuxOff,      \* some getDemands so far delivered a de-asserted aux1
    ticks,          \* update() has been entered at least once
    stab,           \* a Stabilizer (src/src/stabilizer.hpp) and its last call
    fw,             \* the legacy loop (src/firmware/hackflight.hpp)
    sq              \* a SoftwareQuaternionBoard and its last call

\* the variables of the core loop of src/src/hackflight.hpp
coreVars == << armed, failsafe, safeToArm, yawInitial, rotation, sensors,
               sensor_count, updater, lostSignal, aux1State, throttleDown,
               gotDemands, todo, calls, pre, armTransition,
               initArmed, sawAuxOff, ticks >>

\* the variables of the other components
otherVars == << stab, fw, sq >>

vars == << coreVars, otherVars >>

\* ---------------------------------------------------------------- helpers
Ev(name, arg) == << name, arg >>

Called(name, arg) == \E i \in 1..Len(calls) : calls[i] = Ev(name, arg)

CalledAny(name) == \E i \in 1..Len(calls) : calls[i][1] = name

Count(name, arg) == Cardinality({ i \in 1..Len(calls) : calls[i] = Ev(name, arg) })

\* position of the first occurrence of an event, 0 when absent
RECURSIVE FirstFrom(_, _, _)
FirstFrom(name, arg, i) ==
    IF i > Len(calls) THEN 0
    ELSE IF calls[i] = Ev(name, arg) THEN i
    ELSE FirstFrom(name, arg, i + 1)

First(name, arg) == FirstFrom(name, arg, 1)

\* ------------------------------------------------- Hackflight::safeAngle
\* slip: the envelope taken as inclusive
safeAngle_inclusive(axis) ==
    fabs(rotation[axis]) <= deg2rad(MAX_ARMING_ANGLE_DEGREES)

safeAngle(axis) ==
    fabs(rotation[axis]) < deg2rad(MAX_ARMING_ANGLE_DEGREES)

\* ---------------------------------------------- Hackflight::checkReceiver
\* slip: the armed test of the signal-loss branch negated
SignalLossBranch_negated(lost) == lost /\ ~armed

\* line 170: sync failsafe to receiver
SignalLossBranch(lost) == lost /\ armed

\* slip: disarm also on throttle-down
DisarmCondition_throttle(arm, aux) == arm /\ (~aux \/ throttleDown)

\* line 182: disarm
DisarmCondition(arm, aux) == arm /\ ~aux

\* slip: the latch set from the asserted switch
SafeToArmLatch_asserted(sta, aux) == IF ~sta THEN aux ELSE sta

\* lines 187-189: avoid arming if aux1 switch down on startup
SafeToArmLatch(sta, aux) == IF ~sta THEN ~aux ELSE sta

\* slip: the failsafe test left out of the arm condition
ArmCondition_noFailsafe(sta, arm, thr, aux) ==
    sta /\ ~arm /\ thr /\ aux
        /\ safeAngle(AXIS_ROLL) /\ safeAngle(AXIS_PITCH)

\* slip: the arm-switch test left out of the arm condition
ArmCondition_noSwitch(sta, arm, thr, aux) ==
    sta /\ ~arm /\ thr /\ ~failsafe
        /\ safeAngle(AXIS_ROLL) /\ safeAngle(AXIS_PITCH)

\* lines 192-193: arm (after lots of safety checks)
ArmCondition(sta, arm, thr, aux) ==
    sta /\ ~arm /\ thr /\ aux /\ ~failsafe
        /\ safeAngle(AXIS_ROLL) /\ safeAngle(AXIS_PITCH)

\* slip: cut on throttle-up
CutCondition_throttleUp(arm, thr) == arm /\ ~thr

\* line 199: cut motors on throttle-down
CutCondition(arm, thr) == arm /\ thr

\* slip: the LED set from the armed flag as it was on entry
showArmedStatus_stale(arm) == << Ev("showArmedStatus", B2S(armed)) >>

\* lines 174 and 204: set LED based on arming status
showArmedStatus(arm) == << Ev("showArmedStatus", B2S(arm)) >>

\* slip: the headless-mode reference not latched on arming
HeadlessYaw_notLatched(arming) == yawInitial

\* line 195: grab yaw for headless mode
HeadlessYaw(arming) == IF arming THEN rotation[AXIS_YAW] ELSE yawInitial

\* line 179: the argument of getDemands
YawOffset == rotation[AXIS_YAW] - yawInitial

\* The whole function, for the receiver answers of this cycle: lost is
\* lostSignal(), newData is what getDemands would return, aux and thr are
\* getAux1State() and throttleIsDown() after that getDemands.
checkReceiver(lost, newData, aux, thr) ==
    LET unchanged == [ armed |-> armed, failsafe |-> failsafe,
                       safeToArm |-> safeToArm, yawInitial |-> yawInitial,
                       armTransition |-> FALSE ]
        yawArg == YawOffset
    IN
    IF SignalLossBranch(lost) THEN
        [ unchanged EXCEPT !.armed = FALSE, !.failsafe = TRUE ] @@
        [ gotDemands |-> FALSE,
          calls |-> << Ev("cut", "") >> \o showArmedStatus(FALSE) ]
    ELSE IF ~newData THEN
        unchanged @@
        [ gotDemands |-> FALSE,
          calls |-> << Ev("getDemands", ToString(yawArg)) >> ]
    ELSE
        LET arm1 == IF DisarmCondition(armed, aux) THEN FALSE ELSE armed
            sta1 == SafeToArmLatch(safeToArm, aux)
            arming == ArmCondition(sta1, arm1, thr, aux)
            arm2 == IF arming THEN TRUE ELSE arm1
            yaw2 == HeadlessYaw(arming)
            cut == IF CutCondition(arm2, thr) THEN << Ev("cut", "") >> ELSE << >>
        IN [ armed |-> arm2, failsafe |-> failsafe, safeToArm |-> sta1,
             yawInitial |-> yaw2, armTransition |-> arming,
             gotDemands |-> TRUE,
             calls |-> << Ev("getDemands", ToString(yawArg)) >> \o cut
                          \o showArmedStatus(arm2) ]

\* ------------------------------------------------------------ stage order
\* slip: the PID task run before the receiver check
update_pidFirst == << "pidTask", "checkReceiver", "updater" >>

\* Hackflight::update
update == << "checkReceiver", "pidTask", "updater" >>

\* slip: the quaternion read before the gyrometer
updateFull_quaternionFirst ==
    << "checkQuaternion", "checkGyrometer", "checkOptionalSensors", "serialTask" >>

\* Hackflight::updateFull
updateFull == << "checkGyrometer", "checkQuaternion", "checkOptionalSensors",
                 "serialTask" >>

\* Hackflight::updateLite is one stage
updateLiteStages == << "updateLite" >>

RECURSIVE Expand(_, _)
Expand(stages, u) ==
    IF stages = << >> THEN << >>
    ELSE IF Head(stages) = "updater"
         THEN (IF u = "full" THEN updateFull ELSE updateLiteStages)
                  \o Expand(Tail(stages), u)
         ELSE << Head(stages) >> \o Expand(Tail(stages), u)

AtStage(s) == todo # << >> /\ Head(todo) = s

Idle == todo = << >>

\* --------------------------------------- Stabilizer (src/src/stabilizer.hpp)
\* Demands, angular rates and Euler angles are fixed-point thousandths and the
\* PID gains are integers.  A corrected demand (a product of two thousandths)
\* is carried in millionths.

\* number of updateDemands / resetIntegral calls made on the stabilizer
MaxStabCalls == 4

\* x, a value in thousandths, in millionths; and n whole units in thousandths
Unit(x) == 1000 * x

Axes == { AXIS_ROLL, AXIS_PITCH, AXIS_YAW }

CyclicAxes == { AXIS_ROLL, AXIS_PITCH }

Vec3(r, p, y) == (AXIS_ROLL :> r) @@ (AXIS_PITCH :> p) @@ (AXIS_YAW :> y)

Vec2(r, p) == (AXIS_ROLL :> r) @@ (AXIS_PITCH :> p)

\* resetting thresholds for the PID integral term
gyroWindupMax == Unit(16)

bigGyroDegreesPerSecond == 40

\* 0.1, in thousandths
bigYawDemand == 100

maxArmingAngleDegrees == 25

\* Stabilizer::degreesToRadians: M_PI * deg / 180, in thousandths
degreesToRadians(deg) == (3142 * deg) \div 180

\* Filter::constrainAbs, Filter::max
constrainAbs(v, limit) ==
    IF v < -limit THEN -limit ELSE IF v > limit THEN limit ELSE v

FilterMax(a, b) == IF a > b THEN a ELSE b

\* Filter::complementary(a, b, c) = a*c + b*(1-c), c in thousandths, the
\* result in millionths
complementary(a, b, c) == a * c + b * (Unit(1) - c)

\* the gains a Stabilizer can be constructed with
GainsA == [ levelP |-> 1, gyroCyclicP |-> 1, gyroCyclicI |-> 1,
            gyroCyclicD |-> 1, gyroYawP |-> 1, gyroYawI |-> 1 ]

GainsB == [ levelP |-> 2, gyroCyclicP |-> 2, gyroCyclicI |-> 1,
            gyroCyclicD |-> 3, gyroYawP |-> 160, gyroYawI |-> 2 ]

\* slip: all three integrators but yaw zeroed
resetIntegral_notYaw(st) ==
    [ st EXCEPT !.errorGyroI = Vec3(0, 0, st.errorGyroI[AXIS_YAW]) ]

\* Stabilizer::resetIntegral
resetIntegral(st) == [ st EXCEPT !.errorGyroI = Vec3(0, 0, 0) ]

\* Stabilizer::Stabilizer and Stabilizer::init
StabilizerInit(gains) ==
    resetIntegral(
        [ gains |-> gains,
          lastGyro |-> Vec2(0, 0),
          delta1 |-> Vec2(0, 0),
          delta2 |-> Vec2(0, 0),
          errorGyroI |-> Vec3(0, 0, 0),
          bigGyroRate |-> degreesToRadians(bigGyroDegreesPerSecond),
          maxArmingAngle |-> degreesToRadians(maxArmingAngleDegrees) ])

\* slip: the windup clamp left out
WindupSum_unclamped(sum, error) == sum + error

\* line 87: avoid integral windup
WindupSum(sum, error) == constrainAbs(sum + error, gyroWindupMax)

\* slip: the large-demand reset applied to every axis
IntegralReset_anyAxis(st, rcCommand, rate, axis) ==
    (fabs(rate) > st.bigGyroRate) \/ (fabs(rcCommand) > bigYawDemand)

\* line 90: reset integral on quick gyro change or large gyroYaw command
IntegralReset(st, rcCommand, rate, axis) ==
    (fabs(rate) > st.bigGyroRate)
        \/ ((axis = AXIS_YAW) /\ (fabs(rcCommand) > bigYawDemand))

\* Stabilizer::computeITermGyro: the stabilizer after the call and the value
\* returned (thousandths)
computeITermGyro(st, rateP, rateI, rcCommand, gyroRate, axis) ==
    LET error == rcCommand * rateP - gyroRate[axis]
        summed == WindupSum(st.errorGyroI[axis], error)
        kept == IF IntegralReset(st, rcCommand, gyroRate[axis], axis)
                THEN 0 ELSE summed
    IN [ st |-> [ st EXCEPT !.errorGyroI[axis] = kept ],
         value |-> kept * rateI ]

\* Stabilizer::computePid, every term in millionths
computePid(rateP, PTerm, ITerm, DTerm, gyroRate, axis) ==
    (PTerm - Unit(gyroRate[axis] * rateP)) + ITerm - DTerm

\* slip: the two inputs of the blend swapped
CyclicPTerm_swapped(st, rcCommand, prop, eulerAngle) ==
    complementary((rcCommand - eulerAngle) * st.gains.levelP, rcCommand, prop)

\* lines 108-110: PTermEuler and the blended PTerm (millionths)
CyclicPTerm(st, rcCommand, prop, eulerAngle) ==
    complementary(rcCommand, (rcCommand - eulerAngle) * st.gains.levelP, prop)

\* slip: delta2 takes the new delta instead of the previous one
ShiftDeltas_lost(st, rate, delta, axis) ==
    [ st EXCEPT !.lastGyro[axis] = rate,
                !.delta2[axis] = delta,
                !.delta1[axis] = delta ]

\* lines 115-118: the rate and the rate deltas kept for the next D term
ShiftDeltas(st, rate, delta, axis) ==
    [ st EXCEPT !.lastGyro[axis] = rate,
                !.delta2[axis] = st.delta1[axis],
                !.delta1[axis] = delta ]

\* Stabilizer::computeCyclicPid: the stabilizer after the call, the value
\* returned (millionths), and the I term and delta sum it used
computeCyclicPid(st, rcCommand, prop, eulerAngles, gyroRate, imuAxis) ==
    LET it == computeITermGyro(st, st.gains.gyroCyclicP, st.gains.gyroCyclicI,
                               rcCommand, gyroRate, imuAxis)
        PTerm == CyclicPTerm(st, rcCommand, prop, eulerAngles[imuAxis])
        ITerm == it.value * prop
        delta == gyroRate[imuAxis] - st.lastGyro[imuAxis]
        deltaSum == st.delta1[imuAxis] + st.delta2[imuAxis] + delta
        st2 == ShiftDeltas(it.st, gyroRate[imuAxis], delta, imuAxis)
        DTerm == Unit(deltaSum * st.gains.gyroCyclicD)
    IN [ st |-> st2,
         value |-> computePid(st.gains.gyroCyclicP, PTerm, ITerm, DTerm,
                              gyroRate, imuAxis),
         ITermGyro |-> it.value,
         deltaSum |-> deltaSum ]

\* line 166: proportion of cyclic demand compared to its maximum (thousandths)
CyclicProportion(roll, pitch) == 2 * FilterMax(fabs(roll), fabs(pitch))

\* line 177: prevent "gyroYaw jump" during gyroYaw correction (millionths);
\* demands.yaw already holds the corrected value when the limit is computed
YawJumpClamp(yaw) == constrainAbs(yaw, Unit(100) + fabs(yaw))

\* Stabilizer::updateDemands: the stabilizer after the call, the corrected
\* demands (millionths), and what the call computed on the way
updateDemands(st, state, demands) ==
    LET eulerAngles == state.value
        gyroRate == state.deriv
        prop == CyclicProportion(demands.roll, demands.pitch)
        r == computeCyclicPid(st, demands.roll, prop, eulerAngles, gyroRate,
                              AXIS_ROLL)
        p == computeCyclicPid(r.st, demands.pitch, prop, eulerAngles, gyroRate,
                              AXIS_PITCH)
        y == computeITermGyro(p.st, st.gains.gyroYawP, st.gains.gyroYawI,
                              demands.yaw, gyroRate, AXIS_YAW)
        yaw == computePid(st.gains.gyroYawP, Unit(demands.yaw), Unit(y.value),
                          0, gyroRate, AXIS_YAW)
    IN [ st |-> y.st,
         demands |-> [ roll |-> r.value, pitch |-> p.value,
                       yaw |-> YawJumpClamp(yaw) ],
         prop |-> prop,
         ITermGyro |-> Vec3(r.ITermGyro, p.ITermGyro, y.value),
         deltaSum |-> Vec2(r.deltaSum, p.deltaSum) ]

\* the vehicle states and demands updateDemands is called with
StabInput(roll, pitch, yaw, rates, angles) ==
    [ demands |-> [ roll |-> roll, pitch |-> pitch, yaw |-> yaw ],
      state |-> [ value |-> angles, deriv |-> rates ] ]

StabInputs == {
    \* everything zero
    StabInput(0, 0, 0, Vec3(0, 0, 0), Vec3(0, 0, 0)),
    \* sticks centred, at rest, tilted
    StabInput(0, 0, 0, Vec3(0, 0, 0), Vec3(200, -200, 0)),
    \* the roll demand at the end of the nominal range [-1, 1]
    StabInput(1000, -300, 0, Vec3(0, 0, 0), Vec3(200, 0, 0)),
    \* sticks centred, tilted and rotating slowly
    StabInput(0, 0, 0, Vec3(300, -300, 0), Vec3(200, -200, 0)),
    \* a large roll demand, rate below the threshold
    StabInput(8000, 0, 0, Vec3(-300, 0, 0), Vec3(0, 0, 0)),
    \* a large pitch demand, the yaw demand exactly 0.1
    StabInput(0, -8000, 100, Vec3(0, 300, -300), Vec3(200, 0, 0)),
    \* full cyclic deflection (0.5), the pitch rate exactly on the threshold
    StabInput(500, 0, 0, Vec3(300, 698, 0), Vec3(200, -200, 0)),
    \* sticks centred, every rate just over the threshold
    StabInput(0, 0, 0, Vec3(699, -699, 699), Vec3(0, 200, 0)),
    \* large roll and pitch demands, the yaw demand just over 0.1
    StabInput(8000, 8000, 101, Vec3(0, 0, 0), Vec3(0, 0, 0)),
    \* full deflection on pitch, the yaw rate exactly on the threshold
    StabInput(-500, 500, -100, Vec3(0, 0, -698), Vec3(0, 0, 0)) }

ZeroInput == StabInput(0, 0, 0, Vec3(0, 0, 0), Vec3(0, 0, 0))

\* the stabilizer, the number of calls made on it, the last call, and the
\* angular rates of the last four updateDemands calls, latest first (zero
\* before init)
StabStart(gains) ==
    [ st |-> StabilizerInit(gains),
      n |-> 0,
      op |-> "init",
      afterReset |-> FALSE,
      before |-> StabilizerInit(gains),
      in |-> ZeroInput,
      rates |-> << Vec3(0, 0, 0), Vec3(0, 0, 0), Vec3(0, 0, 0),
                   Vec3(0, 0, 0) >>,
      out |-> updateDemands(StabilizerInit(gains), ZeroInput.state,
                            ZeroInput.demands) ]

StabUpdateDemands ==
    /\ stab.n < MaxStabCalls
    /\ \E in \in StabInputs :
        LET r == updateDemands(stab.st, in.state, in.demands) IN
        stab' = [ st |-> r.st,
                  n |-> stab.n + 1,
                  op |-> "updateDemands",
                  afterReset |-> (stab.op = "resetIntegral"),
                  before |-> stab.st,
                  in |-> in,
                  rates |-> << in.state.deriv >> \o SubSeq(stab.rates, 1, 3),
                  out |-> r ]
    /\ UNCHANGED << coreVars, fw, sq >>

StabResetIntegral ==
    /\ stab.n < MaxStabCalls
    /\ stab' = [ stab EXCEPT !.st = resetIntegral(stab.st),
                             !.n = stab.n + 1,
                             !.op = "resetIntegral",
                             !.afterReset = FALSE,
                             !.before = stab.st ]
    /\ UNCHANGED << coreVars, fw, sq >>

\* ------------------------------- legacy loop (src/firmware/hackflight.hpp)
\* rc.sticks: the positions of <<throttle, yaw, pitch, roll>>; two bits per
\* stick in the code, so a sum of stick codes is equal to another exactly
\* when the four positions are equal
Sticks(thr, yaw, pit, rol) == << thr, yaw, pit, rol >>

\* the stick combinations the loop can receive: the four gestures, idle on
\* the ground, and in flight
StickSet == { Sticks("LO", "HI", "CE", "CE"), Sticks("LO", "LO", "CE", "CE"),
              Sticks("LO", "LO", "LO", "CE"), Sticks("HI", "LO", "LO", "CE"),
              Sticks("LO", "CE", "CE", "CE"), Sticks("HI", "CE", "CE", "CE") }

\* what rc.update can read: sticks, rc.changed(), rc.auxState(); the throttle
\* is down exactly when the throttle stick is low
RcStates ==
    { [ sticks |-> st, changed |-> ch, auxState |-> aux,
        throttleIsDown |-> (st[1] = "LO") ] :
        st \in StickSet, ch \in BOOLEAN, aux \in { 0, 1 } }

\* Hackflight::init and Hackflight::initImuRc, for a board whose gyro
\* calibration lasts gyroCycles IMU periods and that has taskCount extra tasks;
\* calibratingA is not assigned by either and starts as calA.  imuUpdates
\* counts the IMU updates run since init, up to calibratingGyroCycles
FwInit(gyroCycles, taskCount, calA) ==
    [ armed |-> FALSE,
      accCalibrated |-> FALSE,
      calibratingGyroCycles |-> gyroCycles,
      calibratingAccCycles |-> 1,
      calibratingG |-> gyroCycles,
      calibratingA |-> calA,
      haveSmallAngle |-> TRUE,
      taskOrder |-> 0,
      taskCount |-> taskCount,
      rc |-> [ sticks |-> Sticks("LO", "CE", "CE", "CE"), changed |-> FALSE,
               auxState |-> 0, throttleIsDown |-> TRUE ],
      resetSinceStab |-> TRUE,
      stabSawReset |-> TRUE,
      gotRc |-> FALSE,
      imuUpdates |-> 0,
      calls |-> << >> ]

\* slip: the integral reset when the throttle is up
LandedReset_inverted(rc) == ~rc.throttleIsDown

\* lines 140-142: when landed, reset integral component of PID
LandedReset(rc) == rc.throttleIsDown

\* slip: the disarm gesture taken without rc.changed()
FwDisarm_unchanged(f, rc) ==
    f.armed /\ rc.sticks = Sticks("LO", "LO", "CE", "CE")

\* lines 144-155: disarm on throttle down + yaw
FwDisarm(f, rc) ==
    rc.changed /\ f.armed /\ rc.sticks = Sticks("LO", "LO", "CE", "CE")

\* lines 160-162: gyro calibration
FwGyroCal(f, rc) ==
    rc.changed /\ ~f.armed /\ rc.sticks = Sticks("LO", "LO", "LO", "CE")

\* slip: arming without waiting for the gyro calibration
FwArm_uncalibrated(f, rc, calG) ==
    /\ rc.changed /\ ~f.armed
    /\ rc.sticks = Sticks("LO", "HI", "CE", "CE")
    /\ f.accCalibrated
    /\ rc.auxState = 0

\* lines 164-171: arm via throttle-low / yaw-right; calG is the gyro
\* calibration countdown after line 162
FwArm(f, rc, calG) ==
    /\ rc.changed /\ ~f.armed
    /\ rc.sticks = Sticks("LO", "HI", "CE", "CE")
    /\ calG = 0 /\ f.accCalibrated
    /\ rc.auxState = 0

\* lines 211-215: a calibration countdown stops at zero
Countdown(c) == IF c > 0 THEN c - 1 ELSE c

\* Hackflight::gotRcUpdate: due is rcTask.checkAndUpdate() || rcSerialReady(),
\* rc what rc.update reads
gotRcUpdate(f, due, rc) ==
    IF ~due THEN [ f EXCEPT !.gotRc = FALSE ]
    ELSE
        LET aux == IF f.armed
                   THEN << Ev("showAuxStatus", ToString(rc.auxState)) >>
                   ELSE << >>
            reset == LandedReset(rc)
            disarm == FwDisarm(f, rc)
            gyroCal == FwGyroCal(f, rc)
            calG == IF gyroCal THEN f.calibratingGyroCycles ELSE f.calibratingG
            arm == FwArm(f, rc, calG)
            accCal == /\ rc.changed /\ ~f.armed
                      /\ rc.sticks = Sticks("HI", "LO", "LO", "CE")
            armed2 == IF disarm THEN FALSE ELSE IF arm THEN TRUE ELSE f.armed
        IN [ f EXCEPT
               !.rc = rc,
               !.armed = armed2,
               !.calibratingG = calG,
               !.calibratingA = IF accCal THEN f.calibratingAccCycles
                                ELSE f.calibratingA,
               !.resetSinceStab = f.resetSinceStab \/ reset,
               !.gotRc = TRUE,
               !.calls = f.calls
                   \o << Ev("rc.update", "") >>
                   \o aux
                   \o (IF reset THEN << Ev("resetIntegral", "") >> ELSE << >>)
                   \o (IF disarm \/ arm
                       THEN << Ev("showArmedStatus", B2S(armed2)) >>
                       ELSE << >>)
                   \o << Ev("extrasCheckSwitch", "") >> ]

\* Hackflight::updateCalibrationState: accelDue is
\* accelCalibrationTask.check(), small is what the IMU angles give
updateCalibrationState(f, accelDue, small) ==
    [ f EXCEPT
        !.calibratingA = Countdown(f.calibratingA),
        !.calibratingG = Countdown(f.calibratingG),
        !.haveSmallAngle = small,
        !.accCalibrated = IF accelDue THEN small ELSE f.accCalibrated ]

\* Hackflight::updateImu: due is imuTask.checkAndUpdate()
updateImu(f, due, accelDue, small) ==
    IF ~due THEN [ f EXCEPT !.calls = f.calls \o << Ev("updateImu", "") >> ]
    ELSE
        LET g == updateCalibrationState(f, accelDue, small)
        IN [ g EXCEPT
               !.stabSawReset = f.resetSinceStab,
               !.resetSinceStab = FALSE,
               !.imuUpdates = IF f.imuUpdates < f.calibratingGyroCycles
                                THEN f.imuUpdates + 1 ELSE f.imuUpdates,
               !.calls = f.calls \o
                   << Ev("updateImu", ""), Ev("imu.update", B2S(f.armed)), Ev("stab.update", ""),
                      Ev("mixer.update", B2S(f.armed)),
                      Ev("msp.update", B2S(f.armed)) >> ]

\* lines 110-120: the extra task of an update() call without new RC values
extraTask(f) ==
    LET next == f.taskOrder + 1
    IN [ f EXCEPT
           !.calls = f.calls \o
               << Ev("extrasPerformTask", ToString(f.taskOrder)) >>,
           !.taskOrder = IF next >= f.taskCount THEN 0 ELSE next ]

\* Hackflight::update
FwUpdate ==
    \E rcDue \in BOOLEAN, rc \in RcStates, imuDue \in BOOLEAN,
       accelDue \in BOOLEAN, small \in BOOLEAN :
        /\ (~rcDue => rc = fw.rc)
        /\ (~imuDue => (~accelDue /\ small = fw.haveSmallAngle))
        /\ LET f0 == [ fw EXCEPT !.calls = << >> ]
               f1 == gotRcUpdate(f0, rcDue, rc)
               f2 == IF ~f1.gotRc THEN extraTask(f1) ELSE f1
           IN fw' = updateImu(f2, imuDue, accelDue, small)
        /\ UNCHANGED << coreVars, stab, sq >>

\* --------- SoftwareQuaternionBoard (src/src/boards/software_quaternion.hpp)
\* number of getQuaternion calls made on the board
MaxQuatCalls == 11

\* update quaternion after this number of gyro updates
QUATERNION_DIVISOR == 5

\* the IMU readings (_ax .. _gz) a board's getGyrometer can leave behind
ImuSamples == { 1, 2, 3 }

\* MadgwickQuaternionFilter6DOF::update: the filter's quaternion is a function
\* of the readings it was fed, kept here as the sequence of those readings
FilterUpdate(q, sample) == Append(q, sample)

\* slip: the counter taken modulo one more than the divisor
QuatCycle_late(c) == (c + 1) % (QUATERNION_DIVISOR + 1)

\* line 62: _quatCycleCount = (_quatCycleCount + 1) % QUATERNION_DIVISOR
QuatCycle(c) == (c + 1) % QUATERNION_DIVISOR

\* SoftwareQuaternionBoard::getQuaternion on the board b with the caller's
\* buffer quat: the board after the call, the buffer and the value returned
getQuaternion(b, quat) ==
    LET count == QuatCycle(b.quatCycleCount)
    IN IF count = 0
       THEN LET q == FilterUpdate(b.filter, b.sample)
            IN [ board |-> [ b EXCEPT !.quatCycleCount = count, !.filter = q ],
                 quat |-> q,
                 ret |-> TRUE ]
       ELSE [ board |-> [ b EXCEPT !.quatCycleCount = count ],
              quat |-> quat,
              ret |-> FALSE ]

\* a fresh board, a caller's buffer that holds no quaternion of the filter,
\* the number of getQuaternion calls made and the last call
SqInit ==
    [ board |-> [ quatCycleCount |-> 0, filter |-> << >>, sample |-> 1 ],
      quat |-> << 0 >>,
      n |-> 0,
      op |-> "init",
      ret |-> FALSE,
      before |-> [ filter |-> << >>, quat |-> << 0 >> ] ]

\* a subclass's getGyrometer stores new IMU readings
SqGetGyrometer ==
    /\ \E s \in ImuSamples :
        sq' = [ sq EXCEPT !.board.sample = s, !.op = "getGyrometer" ]
    /\ UNCHANGED << coreVars, stab, fw >>

SqGetQuaternion ==
    /\ sq.n < MaxQuatCalls
    /\ LET r == getQuaternion(sq.board, sq.quat) IN
        sq' = [ board |-> r.board,
                quat |-> r.quat,
                n |-> sq.n + 1,
                op |-> "getQuaternion",
                ret |-> r.ret,
                before |-> [ filter |-> sq.board.filter, quat |-> sq.quat ] ]
    /\ UNCHANGED << coreVars, stab, fw >>

\* ------------------------------------------------------------------- Init
\* Hackflight::init, full variant (armed is the simulator's safety override)
\* or lite variant
CoreInit ==
    /\ updater \in { "full", "lite" }
    /\ initArmed \in BOOLEAN
    /\ (updater = "lite" => initArmed = FALSE)
    /\ armed = initArmed
    /\ failsafe = FALSE
    /\ safeToArm = FALSE
    /\ yawInitial = 0
    /\ rotation = Rot(0, 0, 0)
    /\ sensors = IF updater = "full" THEN << "quaternion", "gyrometer" >> ELSE << >>
    /\ sensor_count = IF updater = "full" THEN 2 ELSE 0
    /\ lostSignal = FALSE
    /\ aux1State \in BOOLEAN
    /\ throttleDown \in BOOLEAN
    /\ gotDemands = FALSE
    /\ todo = << >>
    /\ calls = << >>
    /\ pre = [ armed |-> armed, failsafe |-> FALSE, safeToArm |-> FALSE,
               yawInitial |-> 0 ]
    /\ armTransition = FALSE
    /\ sawAuxOff = FALSE
    /\ ticks = FALSE

Init ==
    /\ CoreInit
    /\ stab = StabStart(GainsA)
    /\ fw = FwInit(2, 1, 0)
    /\ sq = SqInit

\* ---------------------------------------------------------------- actions
\* Hackflight::addSensor / add_sensor: _sensors[_sensor_count++] = sensor
add_sensor(list, count, sensor) ==
    IF count + 1 <= Len(list)
    THEN [ list EXCEPT ![count + 1] = sensor ]
    ELSE Append(list, sensor)

AddSensor ==
    /\ Idle
    /\ updater = "full"
    /\ ~ticks
    /\ Len(sensors) - 2 < MaxAddSensor
    /\ sensors' = add_sensor(sensors, sensor_count, ExtraSensors[Len(sensors) - 1])
    /\ sensor_count' = (sensor_count + 1) % SensorCapacity
    /\ UNCHANGED << armed, failsafe, safeToArm, yawInitial, rotation, updater,
                    lostSignal, aux1State, throttleDown, gotDemands,
                    todo, calls, pre, armTransition, initArmed,
                    sawAuxOff, ticks >>
    /\ UNCHANGED otherVars

\* entry of Hackflight::update
Update ==
    /\ Idle
    /\ todo' = Expand(update, updater)
    /\ calls' = << >>
    /\ ticks' = TRUE
    /\ armTransition' = FALSE
    /\ gotDemands' = FALSE
    /\ pre' = [ armed |-> armed, failsafe |-> failsafe, safeToArm |-> safeToArm,
                yawInitial |-> yawInitial ]
    /\ UNCHANGED << armed, failsafe, safeToArm, yawInitial, rotation, sensors,
                    sensor_count, updater, lostSignal, aux1State, throttleDown,
                    initArmed, sawAuxOff >>
    /\ UNCHANGED otherVars

CheckReceiver ==
    /\ AtStage("checkReceiver")
    /\ \E lost \in BOOLEAN, newData \in BOOLEAN, aux \in BOOLEAN, thr \in BOOLEAN :
        /\ (~newData \/ SignalLossBranch(lost)) => (aux = aux1State /\ thr = throttleDown)
        /\ LET r == checkReceiver(lost, newData, aux, thr) IN
            /\ armed' = r.armed
            /\ failsafe' = r.failsafe
            /\ safeToArm' = r.safeToArm
            /\ yawInitial' = r.yawInitial
            /\ armTransition' = r.armTransition
            /\ gotDemands' = r.gotDemands
            /\ calls' = calls \o r.calls \o << Ev("checkReceiver", "done") >>
            /\ sawAuxOff' = (sawAuxOff \/ (r.gotDemands /\ ~aux))
        /\ lostSignal' = lost
        /\ aux1State' = aux
        /\ throttleDown' = thr
    /\ pre' = [ armed |-> armed, failsafe |-> failsafe, safeToArm |-> safeToArm,
                yawInitial |-> yawInitial ]
    /\ todo' = Tail(todo)
    /\ UNCHANGED << rotation, sensors, sensor_count, updater, initArmed, ticks >>
    /\ UNCHANGED otherVars

\* PidTask::update: the PID / actuator stage reads the arming flags
pidTask(arm, fs) ==
    << Ev("pidTask", ""), Ev("pid.armed", B2S(arm)), Ev("pid.failsafe", B2S(fs)) >>

PidTaskUpdate ==
    /\ AtStage("pidTask")
    /\ calls' = calls \o pidTask(armed, failsafe)
    /\ todo' = Tail(todo)
    /\ UNCHANGED << armed, failsafe, safeToArm, yawInitial, rotation, sensors,
                    sensor_count, updater, lostSignal, aux1State, throttleDown,
                    gotDemands, pre, armTransition, initArmed,
                    sawAuxOff, ticks >>
    /\ UNCHANGED otherVars

\* slip: modifyState called whatever ready(time) returned
Poll_unguarded(sensor, ready) ==
    << Ev("ready=" \o B2S(ready), sensor), Ev("modifyState", sensor) >>

\* the calls one poll of a sensor makes: if (sensor->ready(time))
\* sensor->modifyState(_state, time)
Poll(sensor, ready) ==
    IF ready THEN << Ev("ready=true", sensor), Ev("modifyState", sensor) >>
    ELSE << Ev("ready=false", sensor) >>

\* Hackflight::checkGyrometer: the gyrometer writes angular rates only
CheckGyrometer ==
    /\ AtStage("checkGyrometer")
    /\ \E ready \in BOOLEAN : calls' = calls \o Poll("gyrometer", ready)
    /\ todo' = Tail(todo)
    /\ UNCHANGED << armed, failsafe, safeToArm, yawInitial, rotation, sensors,
                    sensor_count, updater, lostSignal, aux1State, throttleDown,
                    gotDemands, pre, armTransition,
                    initArmed, sawAuxOff, ticks >>
    /\ UNCHANGED otherVars

\* Hackflight::checkQuaternion: the quaternion writes the Euler angles
CheckQuaternion ==
    /\ AtStage("checkQuaternion")
    /\ \E ready \in BOOLEAN :
        /\ calls' = calls \o Poll("quaternion", ready)
        /\ IF ready
           THEN rotation' \in RotationSet
           ELSE rotation' = rotation
    /\ todo' = Tail(todo)
    /\ UNCHANGED << armed, failsafe, safeToArm, yawInitial, sensors,
                    sensor_count, updater, lostSignal, aux1State, throttleDown,
                    gotDemands, pre, armTransition,
                    initArmed, sawAuxOff, ticks >>
    /\ UNCHANGED otherVars

RECURSIVE PollAll(_, _, _)
PollAll(k, count, ready) ==
    IF k > count THEN << >>
    ELSE Poll(sensors[k], ready[k]) \o PollAll(k + 1, count, ready)

\* Hackflight::checkOptionalSensors: for (k = 0; k < _sensor_count; ++k)
CheckOptionalSensors ==
    /\ AtStage("checkOptionalSensors")
    /\ \E ready \in [ 1..sensor_count -> BOOLEAN ] :
        /\ calls' = calls \o PollAll(1, sensor_count, ready)
        /\ IF \E k \in 1..sensor_count : sensors[k] = "quaternion" /\ ready[k]
           THEN rotation' \in RotationSet
           ELSE rotation' = rotation
    /\ todo' = Tail(todo)
    /\ UNCHANGED << armed, failsafe, safeToArm, yawInitial, sensors,
                    sensor_count, updater, lostSignal, aux1State, throttleDown,
                    gotDemands, pre, armTransition,
                    initArmed, sawAuxOff, ticks >>
    /\ UNCHANGED otherVars

\* SerialTask::update
SerialTaskUpdate ==
    /\ AtStage("serialTask")
    /\ calls' = Append(calls, Ev("serialTask", ""))
    /\ todo' = Tail(todo)
    /\ UNCHANGED << armed, failsafe, safeToArm, yawInitial, rotation, sensors,
                    sensor_count, updater, lostSignal, aux1State, throttleDown,
                    gotDemands, pre, armTransition,
                    initArmed, sawAuxOff, ticks >>
    /\ UNCHANGED otherVars

\* Hackflight::updateLite
updateLite(arm) ==
    (IF ~arm THEN << Ev("sendDisarmed", "") >> ELSE << >>)
        \o << Ev("serialTask", "") >>

UpdateLite ==
    /\ AtStage("updateLite")
    /\ calls' = calls \o updateLite(armed)
    /\ todo' = Tail(todo)
    /\ UNCHANGED << armed, failsafe, safeToArm, yawInitial, rotation, sensors,
                    sensor_count, updater, lostSignal, aux1State, throttleDown,
                    gotDemands, pre, armTransition,
                    initArmed, sawAuxOff, ticks >>
    /\ UNCHANGED otherVars

Next ==
    \/ AddSensor
    \/ Update
    \/ CheckReceiver
    \/ PidTaskUpdate
    \/ CheckGyrometer
    \/ CheckQuaternion
    \/ CheckOptionalSensors
    \/ SerialTaskUpdate
    \/ UpdateLite

Spec == Init /\ [][Next]_vars

\* the core loop just after init(), at rest, for the specifications of the
\* other components
CoreParked ==
    /\ updater = "lite" /\ initArmed = FALSE /\ armed = FALSE
    /\ failsafe = FALSE /\ safeToArm = FALSE /\ yawInitial = 0
    /\ rotation = Rot(0, 0, 0) /\ sensors = << >> /\ sensor_count = 0
    /\ lostSignal = FALSE /\ aux1State = FALSE /\ throttleDown = FALSE
    /\ gotDemands = FALSE /\ todo = << >> /\ calls = << >>
    /\ pre = [ armed |-> FALSE, failsafe |-> FALSE, safeToArm |-> FALSE,
               yawInitial |-> 0 ]
    /\ armTransition = FALSE /\ sawAuxOff = FALSE /\ ticks = FALSE

\* a Stabilizer after init(), called with updateDemands and resetIntegral
InitStab ==
    /\ CoreParked
    /\ stab \in { StabStart(GainsA), StabStart(GainsB) }
    /\ fw = FwInit(2, 1, 0)
    /\ sq = SqInit

NextStab ==
    \/ StabUpdateDemands
    \/ StabResetIntegral

SpecStab == InitStab /\ [][NextStab]_vars

\* the legacy loop after init(), update() called again and again
InitFw ==
    /\ CoreParked
    /\ stab = StabStart(GainsA)
    /\ fw \in { FwInit(g, t, a) : g \in { 0, 2 }, t \in { 0, 1, 3 },
                                  a \in { 0, 1 } }
    /\ sq = SqInit

NextFw == FwUpdate

SpecFw == InitFw /\ [][NextFw]_vars

\* a SoftwareQuaternionBoard polled by its owner
InitSq ==
    /\ CoreParked
    /\ stab = StabStart(GainsA)
    /\ fw = FwInit(2, 1, 0)
    /\ sq = SqInit

NextSq ==
    \/ SqGetGyrometer
    \/ SqGetQuaternion

SpecSq == InitSq /\ [][NextSq]_vars

\* the sensor registry of the full variant: the host registers up to
\* MaxRegistrations sensors before the loop starts, then the optional sensors
\* are polled, in each poll either all of them ready or none
RegSensor(k) == "sensor" \o ToString(k)

RegAddSensor ==
    /\ ~ticks
    /\ Len(sensors) - 2 < MaxRegistrations
    /\ sensors' = add_sensor(sensors, sensor_count, RegSensor(Len(sensors) - 1))
    /\ sensor_count' = (sensor_count + 1) % SensorCapacity
    /\ UNCHANGED << armed, failsafe, safeToArm, yawInitial, rotation, updater,
                    lostSignal, aux1State, throttleDown, gotDemands,
                    todo, calls, pre, armTransition, initArmed,
                    sawAuxOff, ticks >>
    /\ UNCHANGED otherVars

RegCheckOptionalSensors ==
    /\ \E r \in BOOLEAN :
        /\ calls' = PollAll(1, sensor_count, [ k \in 1..sensor_count |-> r ])
        /\ IF r /\ sensor_count > 0
           THEN rotation' \in RotationSet
           ELSE rotation' = rotation
    /\ ticks' = TRUE
    /\ UNCHANGED << armed, failsafe, safeToArm, yawInitial, sensors,
                    sensor_count, updater, lostSignal, aux1State, throttleDown,
                    gotDemands, todo, pre, armTransition, initArmed,
                    sawAuxOff >>
    /\ UNCHANGED otherVars

InitReg ==
    /\ CoreInit
    /\ updater = "full" /\ ~initArmed /\ ~aux1State /\ ~throttleDown
    /\ stab = StabStart(GainsA)
    /\ fw = FwInit(2, 1, 0)
    /\ sq = SqInit

NextReg ==
    \/ RegAddSensor
    \/ RegCheckOptionalSensors

SpecReg == InitReg /\ [][NextReg]_vars

\* ------------------------------------------------------------- type check
TypeOK ==
    /\ armed \in BOOLEAN /\ failsafe \in BOOLEAN /\ safeToArm \in BOOLEAN
    /\ yawInitial \in YawSet
    /\ rotation \in RotationSet
    /\ sensor_count \in 0..(SensorCapacity - 1)
    /\ updater \in { "full", "lite" }

\* the arming check of the current tick has run
Checked == ticks /\ CalledAny("checkReceiver")

\* the current tick has run all its stages
TickDone == ticks /\ Idle

\* the arming check of the current tick has just returned
JustChecked == Checked /\ calls[Len(calls)] = Ev("checkReceiver", "done")

\* the signal-loss branch of the current cycle's arming check was taken
LossBranchTaken == pre.armed /\ lostSignal

\* roll and pitch are strictly inside the 25 degree arming envelope
InsideEnvelope ==
    /\ fabs(rotation[AXIS_ROLL]) < ArmingLimit
    /\ fabs(rotation[AXIS_PITCH]) < ArmingLimit

\* =================================================================== claims

\* C1: a cycle that starts armed with lostSignal() true ends with armed false
\* and failsafe true, has called cut() and showArmedStatus(false), and has
\* made no arm transition, whatever throttle, arm switch, safeToArm and the
\* angles are.
C1_SignalLossDisarms ==
    (Checked /\ pre.armed /\ lostSignal) =>
        /\ ~armed
        /\ failsafe
        /\ Called("cut", "")
        /\ Called("showArmedStatus", "false")
        /\ ~Called("showArmedStatus", "true")
        /\ ~armTransition

\* C1 witness: signal lost while armed, with a complete arm gesture presented
C1_Witness ==
    /\ JustChecked /\ pre.armed /\ lostSignal
    /\ safeToArm /\ aux1State /\ throttleDown /\ InsideEnvelope
    /\ ~armed /\ failsafe

\* C2: in a cycle that starts disarmed, armed becomes true if and only if
\* getDemands returned true, safeToArm was already latched, throttle is down,
\* the arm switch is asserted, failsafe is false and roll and pitch are
\* strictly inside the envelope; no other cycle arms.
C2_ArmIffGesture ==
    JustChecked =>
        ( (~pre.armed /\ armed) <=>
          ( /\ ~pre.armed
            /\ gotDemands
            /\ pre.safeToArm
            /\ throttleDown
            /\ aux1State
            /\ ~pre.failsafe
            /\ InsideEnvelope ) )

\* C2 witness: an arm transition, with the signal present
C2_Witness ==
    JustChecked /\ ~pre.armed /\ armed /\ armTransition /\ ~lostSignal

\* C3: with new data, safeToArm, throttle down, switch asserted and no
\* failsafe, a disarmed vehicle arms exactly when both |roll| and |pitch| are
\* strictly below 25 degrees; exactly 25 degrees is refused.
C3_AngleEnvelope ==
    ( /\ JustChecked /\ ~pre.armed /\ gotDemands /\ pre.safeToArm
      /\ throttleDown /\ aux1State /\ ~pre.failsafe )
    => ( armed <=> InsideEnvelope )

\* C3 witness: every other condition holds and the pitch is exactly -25 degrees
C3_Witness ==
    /\ JustChecked /\ ~pre.armed /\ gotDemands /\ pre.safeToArm
    /\ throttleDown /\ aux1State /\ ~pre.failsafe
    /\ rotation[AXIS_PITCH] = -ArmingLimit /\ rotation[AXIS_ROLL] = 0
    /\ ~armed

\* C4: started disarmed, the vehicle is never armed before some getDemands
\* has delivered a de-asserted arm switch; and safeToArm, once true, stays
\* true.
C4_SafeToArmLatch ==
    [][ /\ (~initArmed' /\ ~sawAuxOff') => ~armed'
        /\ safeToArm => safeToArm' ]_vars

\* C4 witness: switch asserted since boot, a full gesture with new data is
\* presented and refused
C4_Witness ==
    /\ JustChecked /\ ~initArmed /\ ~sawAuxOff /\ gotDemands
    /\ aux1State /\ throttleDown /\ InsideEnvelope /\ ~failsafe
    /\ ~safeToArm /\ ~armed

\* C5 as stated: in every tick whose arming check leaves the vehicle armed
\* with the throttle at minimum, cut() is called, new receiver data or not.
C5_Original ==
    (Checked /\ armed /\ throttleDown) => Called("cut", "")

\* C5 amended: in every tick in which getDemands returned true and whose
\* arming check leaves the vehicle armed with the throttle at minimum, cut()
\* is called.
C5_GroundCutoff ==
    (Checked /\ gotDemands /\ armed /\ throttleDown) => Called("cut", "")

\* C5 witness: armed before and after the check, new data, throttle down
C5_Witness ==
    /\ Checked /\ gotDemands /\ pre.armed /\ armed /\ throttleDown
    /\ Called("cut", "")

\* C6: in every tick in which armed goes from true to false, cut() is called
\* before the tick ends.
C6_CutOnDisarm ==
    (Checked /\ pre.armed /\ ~armed) => Called("cut", "")

\* C7: signal-loss branch not taken, new data, armed at the start and arm
\* switch not asserted: armed is false at the end of the cycle.
C7_DisarmBySwitch ==
    (Checked /\ ~LossBranchTaken /\ gotDemands /\ pre.armed /\ ~aux1State)
        => ~armed

\* C7 witness: disarmed by the switch while everything but the switch would
\* allow arming
C7_Witness ==
    /\ JustChecked /\ ~LossBranchTaken /\ gotDemands /\ pre.armed /\ ~aux1State
    /\ pre.safeToArm /\ throttleDown /\ ~failsafe /\ InsideEnvelope
    /\ ~armed

\* C8: armed goes from true to false only in a cycle with lostSignal() true
\* or in a cycle with new data and the arm switch de-asserted; with the
\* switch asserted and the signal present an armed vehicle stays armed.
C8_OnlyLossOrSwitchDisarms ==
    /\ (Checked /\ pre.armed /\ ~armed) =>
            (lostSignal \/ (gotDemands /\ ~aux1State))
    /\ (Checked /\ pre.armed /\ ~lostSignal /\ aux1State) => armed

\* C8 witness: stays armed with new data, throttle down and an unsafe angle
C8_Witness ==
    /\ JustChecked /\ pre.armed /\ armed /\ ~lostSignal /\ aux1State
    /\ gotDemands /\ throttleDown /\ ~InsideEnvelope

\* C9 as stated: every cycle calls showArmedStatus with the value of armed
\* at the end of the arming check.
C9_Original ==
    Checked => Called("showArmedStatus", B2S(armed))

\* C9 amended: a cycle that takes the signal-loss branch or gets new data
\* calls showArmedStatus exactly once, with the value of armed at the end of
\* the arming check; a cycle without new data does not call it.
C9_ShowArmedStatus ==
    Checked =>
        IF LossBranchTaken \/ gotDemands
        THEN /\ Count("showArmedStatus", B2S(armed)) = 1
             /\ Count("showArmedStatus", B2S(~armed)) = 0
        ELSE ~CalledAny("showArmedStatus")

\* C9 witness: a cycle that changed armed and showed the new value
C9_Witness ==
    /\ Checked /\ gotDemands /\ pre.armed # armed
    /\ Called("showArmedStatus", B2S(armed))

\* C10: in every tick checkReceiver has returned before the PID task runs
\* and before any sensor's modifyState, and the armed and failsafe flags the
\* PID task read are those of this tick's arming check.
C10_ReceiverFirst ==
    /\ CalledAny("pidTask") =>
        /\ First("checkReceiver", "done") # 0
        /\ First("checkReceiver", "done") < First("pidTask", "")
        /\ Called("pid.armed", B2S(armed))
        /\ Called("pid.failsafe", B2S(failsafe))
    /\ \A i \in 1..Len(calls) :
        calls[i][1] = "modifyState" =>
            /\ First("checkReceiver", "done") # 0
            /\ First("checkReceiver", "done") < i

\* C10 witness: a finished full tick whose arming check changed armed and
\* whose quaternion then modified the state
C10_Witness ==
    /\ TickDone /\ updater = "full" /\ pre.armed # armed
    /\ CalledAny("pidTask") /\ Called("modifyState", "quaternion")

\* an event is an evaluation of some sensor's ready(time)
IsReadyCall(e) == e[1] \in { "ready=true", "ready=false" }

\* the sensors whose ready(time) the current tick has evaluated, in order
Polled ==
    LET evs == SelectSeq(calls, IsReadyCall)
    IN [ i \in 1..Len(evs) |-> evs[i][2] ]

\* the sensors the host registered with addSensor, in registration order
Registered == SubSeq(sensors, 3, Len(sensors))

\* a full-variant tick has run all its stages
FullTickDone == TickDone /\ updater = "full"

\* position of the first sensor poll of the tick, 0 when none
RECURSIVE FirstPollFrom(_)
FirstPollFrom(i) ==
    IF i > Len(calls) THEN 0
    ELSE IF IsReadyCall(calls[i]) THEN i
    ELSE FirstPollFrom(i + 1)

\* C11 as stated: in a full-variant tick the stages run receiver check,
\* gyrometer, quaternion, optional sensors, PID stage, serial task, so the PID
\* stage comes after every sensor call of the tick.
C11_Original ==
    FullTickDone =>
        /\ First("checkReceiver", "done") < FirstPollFrom(1)
        /\ \A i \in 1..Len(calls) :
            (IsReadyCall(calls[i]) \/ calls[i][1] = "modifyState")
                => i < First("pidTask", "")
        /\ First("pidTask", "") < First("serialTask", "")

\* C11 amended: in a full-variant tick the stages run receiver check, PID
\* stage, gyrometer, quaternion, the sensors of the _sensors array in array
\* order, serial task; the PID stage comes before every sensor call of the
\* tick.
C11_StageOrder ==
    FullTickDone =>
        /\ First("checkReceiver", "done") # 0
        /\ First("checkReceiver", "done") < First("pidTask", "")
        /\ First("pidTask", "") < FirstPollFrom(1)
        /\ Polled = << "gyrometer", "quaternion" >> \o SubSeq(sensors, 1, sensor_count)
        /\ First("serialTask", "") = Len(calls)

\* C11 witness: a finished full tick in which both mandatory sensors and a
\* registered sensor wrote the state
C11_Witness ==
    /\ FullTickDone
    /\ Called("modifyState", "gyrometer") /\ Called("modifyState", "quaternion")
    /\ Called("modifyState", "barometer")

\* C18: a cycle that arms sets yawInitial to the current yaw, any other cycle
\* leaves yawInitial unchanged, and the offset passed to getDemands is the
\* current yaw minus the yaw latched by the latest earlier arm transition.
C18_HeadlessYaw ==
    JustChecked =>
        /\ (~pre.armed /\ armed) => yawInitial = rotation[AXIS_YAW]
        /\ ~(~pre.armed /\ armed) => yawInitial = pre.yawInitial
        /\ \A i \in 1..Len(calls) :
            calls[i][1] = "getDemands" =>
                calls[i][2] = ToString(rotation[AXIS_YAW] - pre.yawInitial)

\* C18 witness: an arm transition that moved the reference off its old value
C18_Witness ==
    /\ JustChecked /\ ~pre.armed /\ armed
    /\ pre.yawInitial = 0 /\ yawInitial = 1000000
    /\ Called("getDemands", ToString(1000000))

C20_PollOnce ==
    FullTickDone =>
        /\ Polled = << "gyrometer", "quaternion" >> \o Registered
        /\ \A i, j \in 1..Len(calls) :
            (i < j /\ calls[i][1] = "modifyState" /\ calls[j][1] = "modifyState")
                => calls[i][2] # calls[j][2]

\* ------------------------------------------------- stabilizer claim helpers
\* the last call on the stabilizer was updateDemands
Updated == stab.op = "updateDemands"

\* the component of a demands record on a cyclic or yaw axis
DemandOn(d, a) ==
    IF a = AXIS_ROLL THEN d.roll ELSE IF a = AXIS_PITCH THEN d.pitch ELSE d.yaw

\* the angular rate and Euler angle the last updateDemands was given
RateIn(a) == stab.in.state.deriv[a]

AngleIn(a) == stab.in.state.value[a]

\* the sum of the last three rate deltas the last updateDemands used
DeltaSumOf(a) ==
    stab.before.delta1[a] + stab.before.delta2[a]
        + (RateIn(a) - stab.before.lastGyro[a])

\* the last updateDemands had zero rates and zero roll, pitch, yaw demands
ZeroRateAndDemand ==
    /\ \A a \in Axes : RateIn(a) = 0
    /\ \A a \in Axes : DemandOn(stab.in.demands, a) = 0

\* C12: after init() and after every updateDemands or resetIntegral call,
\* the accumulated rate error of every axis is at most gyroWindupMax (16) in
\* absolute value.
C12_IntegralClamp ==
    \A a \in Axes : fabs(stab.st.errorGyroI[a]) <= gyroWindupMax

\* an updateDemands call whose sum left the band and was clamped to the limit
C12_Witness ==
    /\ Updated
    /\ \E a \in CyclicAxes :
        /\ fabs(stab.st.errorGyroI[a]) = gyroWindupMax
        /\ fabs(stab.before.errorGyroI[a]
                + DemandOn(stab.in.demands, a) * stab.st.gains.gyroCyclicP
                - RateIn(a)) > gyroWindupMax

\* C13: after an updateDemands call in which the rate of an axis exceeds the
\* big-rate threshold, or (yaw only) the yaw demand exceeds 0.1, the
\* accumulated error of the axis and the I term of the call are zero whatever
\* was accumulated before; on roll and pitch with the rate at or below the
\* threshold the error is the clamped sum, however large the demand.
C13_IntegralReset ==
    Updated =>
        /\ \A a \in Axes :
            ( \/ fabs(RateIn(a)) > degreesToRadians(bigGyroDegreesPerSecond)
              \/ (a = AXIS_YAW /\ fabs(stab.in.demands.yaw) > bigYawDemand) )
            => /\ stab.st.errorGyroI[a] = 0
               /\ stab.out.ITermGyro[a] = 0
        /\ \A a \in CyclicAxes :
            fabs(RateIn(a)) <= degreesToRadians(bigGyroDegreesPerSecond)
            => stab.st.errorGyroI[a] =
                   constrainAbs(stab.before.errorGyroI[a]
                       + DemandOn(stab.in.demands, a)
                             * stab.st.gains.gyroCyclicP
                       - RateIn(a), gyroWindupMax)

\* a rate over the threshold zeroes an error accumulated by earlier calls,
\* while a large roll demand in an earlier call did accumulate
C13_Witness ==
    /\ Updated
    /\ stab.before.errorGyroI[AXIS_ROLL] # 0
    /\ fabs(RateIn(AXIS_ROLL)) > degreesToRadians(bigGyroDegreesPerSecond)
    /\ stab.st.errorGyroI[AXIS_ROLL] = 0

\* C14: the yaw demand produced by updateDemands is within 0.1 + |raw yaw
\* demand| of zero, the raw yaw demand being the one passed in to the call.
C14_YawBounded ==
    Updated =>
        fabs(stab.out.demands.yaw)
            <= Unit(bigYawDemand) + Unit(fabs(stab.in.demands.yaw))

C16_Original ==
    Updated =>
        \A a \in CyclicAxes :
            /\ stab.out.prop = Unit(1)
               => DemandOn(stab.out.demands, a) =
                      Unit(DemandOn(stab.in.demands, a))
                      - Unit(RateIn(a) * stab.st.gains.gyroCyclicP)
                      + Unit(stab.st.errorGyroI[a] * stab.st.gains.gyroCyclicI)
                      - Unit(DeltaSumOf(a) * stab.st.gains.gyroCyclicD)
            /\ stab.out.prop = 0
               => DemandOn(stab.out.demands, a) =
                      Unit((DemandOn(stab.in.demands, a) - AngleIn(a))
                               * stab.st.gains.levelP)
                      - Unit(RateIn(a) * stab.st.gains.gyroCyclicP)

\* C16: at prop = 1 the cyclic correction is demand - rate*gyroCyclicP + I - D
\* (no Euler angle in it); at prop = 0 it is
\* (demand - angle)*levelP - rate*gyroCyclicP - D: no contribution from the
\* integral term, but the derivative term is still subtracted.
C16_BlendEndpoints ==
    Updated =>
        \A a \in CyclicAxes :
            /\ stab.out.prop = Unit(1)
               => DemandOn(stab.out.demands, a) =
                      Unit(DemandOn(stab.in.demands, a))
                      - Unit(RateIn(a) * stab.st.gains.gyroCyclicP)
                      + Unit(stab.st.errorGyroI[a] * stab.st.gains.gyroCyclicI)
                      - Unit(DeltaSumOf(a) * stab.st.gains.gyroCyclicD)
            /\ stab.out.prop = 0
               => DemandOn(stab.out.demands, a) =
                      Unit((DemandOn(stab.in.demands, a) - AngleIn(a))
                               * stab.st.gains.levelP)
                      - Unit(RateIn(a) * stab.st.gains.gyroCyclicP)
                      - Unit(DeltaSumOf(a) * stab.st.gains.gyroCyclicD)

\* sticks centred on a tilted, rotating vehicle that has accumulated error
C16_Witness ==
    /\ Updated
    /\ stab.out.prop = 0
    /\ \E a \in CyclicAxes :
        /\ AngleIn(a) # 0
        /\ DeltaSumOf(a) # 0
        /\ stab.st.errorGyroI[a] # 0

\* full deflection on a tilted vehicle with a non-zero I term
C16_FullDeflection ==
    /\ Updated
    /\ stab.out.prop = Unit(1)
    /\ AngleIn(AXIS_ROLL) # 0
    /\ stab.st.errorGyroI[AXIS_ROLL] # 0

\* ------------------------------------------------ legacy loop claim helpers
\* the last update() call made the call named n
FwCalled(n) == \E i \in DOMAIN fw.calls : fw.calls[i][1] = n

\* C17 as stated: every update() call that runs the stabilizer while the
\* receiver's throttle is at minimum has called resetIntegral since the
\* previous stabilizer update.
C17_Original ==
    (FwCalled("stab.update") /\ fw.rc.throttleIsDown) => fw.stabSawReset

\* C17: an update() call that takes new RC values with the throttle at
\* minimum calls resetIntegral, before the stabilizer update of that call if
\* there is one; an update() call that takes no new RC values, or takes them
\* with the throttle up, calls no resetIntegral.
C17_LandedReset ==
    /\ (fw.gotRc /\ fw.rc.throttleIsDown)
        => /\ FwCalled("resetIntegral")
           /\ FwCalled("stab.update") => fw.stabSawReset
    /\ (~fw.gotRc \/ ~fw.rc.throttleIsDown) => ~FwCalled("resetIntegral")

\* armed on the ground: new RC values with the throttle down, then the
\* stabilizer update of the same update() call
C17_Witness ==
    /\ fw.armed /\ fw.gotRc /\ fw.rc.throttleIsDown
    /\ FwCalled("resetIntegral") /\ FwCalled("stab.update")
    /\ fw.stabSawReset

\* ------------------------------------------------------ lite variant claims
\* the calls of the current tick made after checkReceiver returned
AfterCheck == SubSeq(calls, First("checkReceiver", "done") + 1, Len(calls))

\* C21: the variant is the one init chose (the lite variant registers no
\* sensor), and a lite tick consists only of the receiver/arming check, a
\* sendDisarmed() call exactly when armed is false after that check, and the
\* serial task: no sensor poll and no PID stage.
C21_LiteTick ==
    /\ updater = (IF sensors = << >> THEN "lite" ELSE "full")
    /\ (TickDone /\ updater = "lite")
        => /\ AfterCheck =
                 (IF ~armed THEN << Ev("sendDisarmed", "") >> ELSE << >>)
                     \o << Ev("serialTask", "") >>
           /\ Polled = << >>
           /\ ~CalledAny("pidTask")

\* C22: for each cyclic axis the delta sum used by an updateDemands call is
\* the rate of this call minus the rate three calls earlier (zero before
\* init); after the call lastGyro holds the rate of this call, delta1 the
\* last delta and delta2 the delta before it, each axis from its own rates.
C22_DeltaHistory ==
    Updated =>
        \A a \in CyclicAxes :
            /\ stab.out.deltaSum[a] = stab.rates[1][a] - stab.rates[4][a]
            /\ stab.st.lastGyro[a] = stab.rates[1][a]
            /\ stab.st.delta1[a] = stab.rates[1][a] - stab.rates[2][a]
            /\ stab.st.delta2[a] = stab.rates[2][a] - stab.rates[3][a]

\* the fourth updateDemands call in a row, the rates of the last four calls
\* all different on roll and the pitch rates different from the roll rates
C22_Witness ==
    /\ Updated
    /\ stab.n = 4
    /\ stab.rates[4][AXIS_ROLL] # 0
    /\ stab.rates[1][AXIS_ROLL] # stab.rates[2][AXIS_ROLL]
    /\ stab.rates[2][AXIS_ROLL] # stab.rates[3][AXIS_ROLL]
    /\ stab.rates[3][AXIS_ROLL] # stab.rates[4][AXIS_ROLL]
    /\ stab.rates[1][AXIS_PITCH] # stab.rates[1][AXIS_ROLL]
    /\ stab.st.delta2[AXIS_PITCH] # stab.st.delta2[AXIS_ROLL]

\* the update() call that produced the record g made the call << name, arg >>
CalledIn(g, name, arg) == \E i \in DOMAIN g.calls : g.calls[i] = Ev(name, arg)

\* C23: armed changes only in an update() call that took new RC values with
\* rc.changed() true; it becomes true only on the sticks throttle-low +
\* yaw-high + pitch-centre + roll-centre with the gyro calibration countdown
\* at 0, accCalibrated true and the aux switch in the zero position; it
\* becomes false only on throttle-low + yaw-low + pitch-centre + roll-centre;
\* and showArmedStatus is called with the new value on every change.
C23_StickGestures ==
    [][ (fw'.armed # fw.armed) =>
            /\ fw'.gotRc /\ fw'.rc.changed
            /\ CalledIn(fw', "showArmedStatus", B2S(fw'.armed))
            /\ fw'.armed =>
                /\ fw'.rc.sticks = Sticks("LO", "HI", "CE", "CE")
                /\ fw.calibratingG = 0
                /\ fw.accCalibrated
                /\ fw'.rc.auxState = 0
            /\ ~fw'.armed =>
                fw'.rc.sticks = Sticks("LO", "LO", "CE", "CE") ]_vars

\* the disarm gesture has just disarmed a vehicle that had been armed by the
\* arm gesture
C23_Witness ==
    /\ ~fw.armed /\ fw.gotRc /\ fw.rc.changed
    /\ fw.rc.sticks = Sticks("LO", "LO", "CE", "CE")
    /\ CalledIn(fw, "showArmedStatus", "false")

\* the update() call that produced the record g ran an IMU update
ImuRan(g) == \E i \in DOMAIN g.calls : g.calls[i][1] = "imu.update"

\* the gyro calibration gesture was taken by the update() call from f to g
GyroCalTaken(f, g) ==
    /\ g.gotRc /\ g.rc.changed /\ ~f.armed
    /\ g.rc.sticks = Sticks("LO", "LO", "LO", "CE")

\* the accelerometer calibration gesture was taken by the call from f to g
AccCalTaken(f, g) ==
    /\ g.gotRc /\ g.rc.changed /\ ~f.armed
    /\ g.rc.sticks = Sticks("HI", "LO", "LO", "CE")

\* a countdown c after one update() call that ran an IMU update or not
CountedDown(c, ran) == IF ran /\ c > 0 THEN c - 1 ELSE c

\* C24: an armed vehicle has run at least calibratingGyroCycles IMU updates
\* since init; armed never becomes true while the gyro calibration countdown
\* is above 0; the gyro calibration is restarted only by its gesture while
\* disarmed; each countdown decreases by one per IMU update and stops at 0.
C24_StartupCalibration ==
    [][ /\ fw'.armed => fw'.imuUpdates >= fw'.calibratingGyroCycles
        /\ (fw'.armed /\ ~fw.armed) => fw.calibratingG = 0
        /\ fw'.calibratingG > fw.calibratingG => GyroCalTaken(fw, fw')
        /\ fw'.calibratingG =
               CountedDown(IF GyroCalTaken(fw, fw')
                           THEN fw.calibratingGyroCycles
                           ELSE fw.calibratingG, ImuRan(fw'))
        /\ fw'.calibratingA =
               CountedDown(IF AccCalTaken(fw, fw')
                           THEN fw.calibratingAccCycles
                           ELSE fw.calibratingA, ImuRan(fw'))
        /\ fw'.calibratingG >= 0 /\ fw'.calibratingA >= 0 ]_vars

\* the arm gesture has just armed a vehicle whose startup calibration took
\* two IMU updates
C24_Witness ==
    /\ fw.armed /\ fw.calibratingGyroCycles = 2
    /\ CalledIn(fw, "showArmedStatus", "true")
    /\ fw.imuUpdates = 2 /\ fw.calibratingG = 0

\* the indices the update() call that produced g passed to extrasPerformTask
TaskCalls(g) ==
    SelectSeq(g.calls, LAMBDA e : e[1] = "extrasPerformTask")

\* C25: an update() call without new RC values performs exactly one extra
\* task, with the indices of successive such calls running 0, 1, ..., n-1,
\* 0, ... and each index a valid task index below the task count n (n zero
\* or more); a call with new RC values runs no extra task and does not
\* advance the index; updateImu is called by every update() call.
C25_ExtraTasks ==
    [][ /\ ~fw'.gotRc =>
            /\ TaskCalls(fw') =
                   << Ev("extrasPerformTask", ToString(fw.taskOrder)) >>
            /\ fw.taskOrder \in 0..(fw.taskCount - 1)
            /\ fw'.taskOrder = (fw.taskOrder + 1) % fw.taskCount
        /\ fw'.gotRc =>
            /\ TaskCalls(fw') = << >>
            /\ fw'.taskOrder = fw.taskOrder
        /\ \E i \in DOMAIN fw'.calls : fw'.calls[i][1] = "updateImu" ]_vars

\* ------------------------------------------------- quaternion board claims
\* C26: the k-th getQuaternion call on a fresh board returns true, runs the
\* filter and writes quat exactly when k is a multiple of QUATERNION_DIVISOR
\* (5); every other call returns false and leaves quat and the filter as they
\* were; the cycle counter is always in 0..4.
C26_EveryFifthCall ==
    /\ sq.board.quatCycleCount \in 0..4
    /\ sq.op = "getQuaternion" =>
        /\ sq.ret <=> (sq.n % 5 = 0)
        /\ sq.ret =>
            /\ sq.board.filter = Append(sq.before.filter, sq.board.sample)
            /\ sq.quat = sq.board.filter
        /\ ~sq.ret =>
            /\ sq.board.filter = sq.before.filter
            /\ sq.quat = sq.before.quat

\* the tenth call: the second filter run, on readings other than the first
C26_Witness ==
    /\ sq.op = "getQuaternion" /\ sq.n = 10 /\ sq.ret
    /\ Len(sq.board.filter) = 2
    /\ sq.board.filter[1] # sq.board.filter[2]
    /\ sq.quat # sq.before.quat

\* ------------------------------------------------------- failsafe claims
\* C27: once failsafe is set it stays set and armed stays false, whatever
\* the later cycles bring; and failsafe becomes true only in a cycle that
\* observes lostSignal() while armed.
C27_FailsafePermanent ==
    [][ /\ failsafe => (failsafe' /\ ~armed')
        /\ (~failsafe /\ failsafe') => (armed /\ lostSignal') ]_vars

\* after a failsafe: signal restored, new demands, switch asserted, throttle
\* down, attitude level, safeToArm latched, and still disarmed
C27_Witness ==
    /\ JustChecked /\ pre.failsafe /\ failsafe /\ ~armed
    /\ ~lostSignal /\ gotDemands
    /\ safeToArm /\ aux1State /\ throttleDown /\ InsideEnvelope

\* C28: in every cycle in which lostSignal() is true, armed is false when
\* the arming check returns, also when the cycle starts disarmed with the arm
\* switch asserted, throttle down and safe angles.
C28_NoArmWhileLost ==
    (JustChecked /\ lostSignal) => ~armed

\* --------------------------------------------------- sensor registry claims
\* C29: while the registrations fit the 256-entry array (the two mandatory
\* sensors and up to 254 addSensor calls), _sensor_count is the number of
\* sensors registered, it and every write index are within 0..255, and a
\* poll of the registry polls every registered sensor, in order.
C29_RegistryBound ==
    /\ sensor_count \in 0..255
    /\ Len(sensors) <= 256 =>
        /\ sensor_count = Len(sensors)
        /\ ticks => Polled = sensors

\* ------------------------------------------------------ blend weight claims
\* C30: for roll and pitch demands in the nominal range [-1, 1] the blend
\* weight prop computed by updateDemands is between 0 and 1, so both weights
\* of the complementary blend, prop and 1 - prop, are non-negative.
C30_BlendWeight ==
    ( /\ Updated
      /\ fabs(stab.in.demands.roll) <= Unit(1)
      /\ fabs(stab.in.demands.pitch) <= Unit(1) )
    => /\ 0 <= stab.out.prop
       /\ stab.out.prop <= Unit(1)

====
